---------------------------- MODULE Spec2Model ----------------------------
(* Model of main.py: the submit handler review_and_post, its input        *)
(* validation, the ArticleInformation it builds, and the agents it runs    *)
(* (editor, three check tools, approver with the tools confirm_to_human    *)
(* and publish_to_platform).  An agent is modelled by its instructions:    *)
(* it takes exactly the steps its instruction text allows, and where the   *)
(* text is silent every allowed step is possible.  Texts are sequences of  *)
(* one-character strings; fixed messages are one-element sequences that    *)
(* hold an ASCII gloss of the message.                                     *)
EXTENDS Integers, Sequences, FiniteSets, TLC

VARIABLES
    environ,       \* os.environ["MAX_ARTICLE_TAGS"]: <<>> when unset, <<s>> when set to s
    chat_history,  \* the transcript: a sequence of [role, content]
    pc,            \* where review_and_post and the agent run are
    args,          \* the arguments of the current review_and_post call
    context,       \* Runner.run's context: <<>> or <<article_info>>
    verdicts,      \* status returned by each check tool in this run
    gate,          \* answers confirm_to_human returned in this run
    posts,         \* the publish_to_platform calls of this run, each with its result
    final_output,  \* response.final_output: <<>> until the agent run ends
    runs           \* number of review_and_post calls so far

vars == <<environ, chat_history, pc, args, context, verdicts, gate, posts,
          final_output, runs>>

-----------------------------------------------------------------------------
(* Bounds *)

MaxTitleLen == 1
MaxBodyLen == 1
MaxTagsLen == 7
MaxRunsTextLen == 1
MaxRuns == 2
MaxPublishAttempts == 2

Alphabet == {"a", " "}

Strs(n) == UNION {[1..k -> Alphabet] : k \in 0..n}

\* Values the environment variable MAX_ARTICLE_TAGS can hold when it is set.
EnvSettings == {<<"3">>}

\* Errors the Qiita client can raise from create_item_with_http_info.
ClientErrors == {"auth", "rate_limit"}

-----------------------------------------------------------------------------
(* Python string functions *)

RECURSIVE lstrip(_)
lstrip(s) ==
    IF s = <<>> THEN s
    ELSE IF Head(s) = " " THEN lstrip(Tail(s)) ELSE s

RECURSIVE rstrip(_)
rstrip(s) ==
    IF s = <<>> THEN s
    ELSE IF s[Len(s)] = " " THEN rstrip(SubSeq(s, 1, Len(s) - 1)) ELSE s

strip(s) == rstrip(lstrip(s))

\* s.split(sep) with an explicit one-character separator: every occurrence
\* splits, so consecutive separators and the empty string yield empty items.
RECURSIVE split(_, _)
split(s, sep) ==
    IF \A i \in 1..Len(s) : s[i] # sep THEN <<s>>
    ELSE LET i == CHOOSE j \in 1..Len(s) :
                      s[j] = sep /\ \A k \in 1..(j - 1) : s[k] # sep
         IN  <<SubSeq(s, 1, i - 1)>> \o split(SubSeq(s, i + 1, Len(s)), sep)

-----------------------------------------------------------------------------
(* Configuration *)

\* os.getenv(name, default): the default object itself when the variable is
\* unset, the variable's string when it is set.
os_getenv(default) ==
    IF environ = <<>>
    THEN [type |-> "int", int |-> default, str |-> ""]
    ELSE [type |-> "str", int |-> 0, str |-> environ[1]]

MAX_ARTICLE_TAGS == os_getenv(5)

-----------------------------------------------------------------------------
(* Messages *)

MSG_TITLE_EMPTY == <<"title is empty; enter a title">>
MSG_BODY_EMPTY == <<"body is empty; enter a body">>
MSG_TOO_MANY_TAGS == <<"too many tags; at most 5">>
MSG_NO_PROBLEM == <<"no problem">>

welcome_message ==
    [role |-> "assistant", content |-> <<"enter a draft and press check&post">>]

\* The three entries review_and_post appends before anything else.
ProgressEntries(title) ==
    << [role |-> "user", content |-> <<"'">> \o title \o <<"' post to Qiita">>],
       [role |-> "assistant", content |-> <<"yes, I will check and then post">>],
       [role |-> "assistant", content |-> <<"...">>] >>

-----------------------------------------------------------------------------
(* input_validation_check *)

\* The result of a Python call: a returned pair, or a raised exception.
Return(flag, message) ==
    [kind |-> "return", valid |-> flag, message |-> message]
Raise(exc) ==
    [kind |-> "raise", valid |-> FALSE, message |-> <<exc>>]

\* n > limit, where limit is what os.getenv gave: comparing an int with a
\* str raises TypeError.
TagCountCheck(n, limit) ==
    IF limit.type = "int"
    THEN IF n > limit.int
         THEN Return(FALSE, MSG_TOO_MANY_TAGS)
         ELSE Return(TRUE, MSG_NO_PROBLEM)
    ELSE Raise("TypeError")

\* Variant: the title rule is missing.
input_validation_check_NoTitle(title, tags, body) ==
    IF Len(body) = 0 THEN Return(FALSE, MSG_BODY_EMPTY)
    ELSE TagCountCheck(Len(split(strip(tags), " ")), MAX_ARTICLE_TAGS)

input_validation_check(title, tags, body) ==
    IF Len(title) = 0 THEN Return(FALSE, MSG_TITLE_EMPTY)
    ELSE IF Len(body) = 0 THEN Return(FALSE, MSG_BODY_EMPTY)
    ELSE TagCountCheck(Len(split(strip(tags), " ")), MAX_ARTICLE_TAGS)

-----------------------------------------------------------------------------
(* ArticleInformation *)

ItemTag(name) == [name |-> name, versions |-> <<>>]

ArticleInformation(title, tags, body, private_flag, slide_flag) ==
    [ title   |-> strip(title),
      tags    |-> [i \in 1..Len(split(strip(tags), " ")) |->
                       ItemTag(split(strip(tags), " ")[i])],
      body    |-> body,
      private |-> private_flag,
      tweet   |-> FALSE,
      slide   |-> slide_flag ]

\* The JSON prompt handed to the editor agent.
Prompt(a) ==
    [ platform |-> "qiita", title |-> a.title, tags |-> a.tags,
      body |-> a.body, slide_flag |-> a.slide_flag ]

-----------------------------------------------------------------------------
(* Tools of the approver agent *)

\* confirm_to_human: the stub answers "accept" to every message.
confirm_to_human(message) == "accept"

\* Variant: the tags are not passed on.
CreateItemRequest_NoTags(article_info) ==
    [ title   |-> article_info.title,
      tags    |-> <<>>,
      body    |-> article_info.body,
      private |-> article_info.private,
      tweet   |-> article_info.tweet,
      slide   |-> article_info.slide ]

\* CreateItemRequest(**article_info.model_dump())
CreateItemRequest(article_info) ==
    [ title   |-> article_info.title,
      tags    |-> article_info.tags,
      body    |-> article_info.body,
      private |-> article_info.private,
      tweet   |-> article_info.tweet,
      slide   |-> article_info.slide ]

\* publish_to_platform(run_ctx, platform), with the client's reply as a third
\* argument: "ok" or one of ClientErrors.  The value is the record of the
\* call: the request sent to the client (<<>> when none was sent) and the
\* call's result.
publish_to_platform(article_info, platform, reply) ==
    IF platform \notin {"qiita"}
    THEN [platform |-> platform, request |-> <<>>, result |-> "ValueError"]
    ELSE [platform |-> platform,
          request  |-> <<CreateItemRequest(article_info)>>,
          result   |-> reply]

-----------------------------------------------------------------------------
(* Agents, by their instructions *)

Reviewers ==
    {"readablility_check_tool", "quality_check_tool", "code_format_check_tool"}

NoVerdicts == [r \in Reviewers |-> "none"]

\* Variant: one accepting checker is enough for the handoff.
CanHandoff_AnyAccept(v) == \E r \in Reviewers : v[r] = "accept"

\* Editor: "if every checker answered no problem, ask the approver".
CanHandoff(v) == \A r \in Reviewers : v[r] = "accept"

\* Editor: "if even one checker answered that there is a problem, reply to
\* the author why it cannot be published".
CanReject(v) == \E r \in Reviewers : v[r] = "reject"

EditorReply == <<"editor", "reject", "">>

\* Approver: "return the decision, its grounds and the URL of the article".
ApproverReport(decision, url) == <<"approver", decision, url>>

Last(s) == s[Len(s)]

\* Variant: the approver publishes without asking the third party.
MayPublish_NoGate(g, calls) ==
    IF calls = <<>> THEN TRUE
    ELSE Last(calls).result # "ok" /\ Len(calls) < MaxPublishAttempts

\* Approver: "always ask the third party with confirm_to_human; if the third
\* party said accept, call publish_to_platform".  The instructions say
\* nothing about a call that failed: the approver may then call again.
MayPublish(g, calls) ==
    /\ g # <<>>
    /\ Last(g) = "accept"
    /\ IF calls = <<>> THEN TRUE
       ELSE Last(calls).result # "ok" /\ Len(calls) < MaxPublishAttempts

\* The approver's final output, once the third party has answered.
ApproverOutput(g, calls) ==
    IF Last(g) # "accept" THEN ApproverReport("reject", "")
    ELSE IF Last(calls).result = "ok" THEN ApproverReport("accept", "url")
    ELSE ApproverReport("accept", "")

-----------------------------------------------------------------------------
(* State machine *)

NoArgs ==
    [title |-> <<>>, tags |-> <<>>, body |-> <<>>,
     private_flag |-> TRUE, slide_flag |-> FALSE]

Init ==
    /\ environ \in {<<>>} \cup EnvSettings
    /\ chat_history = <<welcome_message>>
    /\ pc = "Idle"
    /\ args = NoArgs
    /\ context = <<>>
    /\ verdicts = NoVerdicts
    /\ gate = <<>>
    /\ posts = <<>>
    /\ final_output = <<>>
    /\ runs = 0

\* Variant: the new entries replace the history.
Extend_Replace(history, entries) == entries

\* chat_history += entries
Extend(history, entries) == history \o entries

\* The submit button: review_and_post starts with texts and checkbox values
\* from the given sets, and runs to its first yield.
Submit(titles, tagTexts, bodies, privates, slides, maxRuns) ==
    /\ pc \in {"Idle", "InvalidInput", "Crashed", "Finished"}
    /\ runs < maxRuns
    /\ runs' = runs + 1
    /\ \E title \in titles, tags \in tagTexts, body \in bodies,
          private_flag \in privates, slide_flag \in slides :
           /\ args' = [title |-> title, tags |-> tags, body |-> body,
                       private_flag |-> private_flag,
                       slide_flag |-> slide_flag]
           /\ chat_history' = Extend(chat_history, ProgressEntries(title))
    /\ context' = <<>>
    /\ verdicts' = NoVerdicts
    /\ gate' = <<>>
    /\ posts' = <<>>
    /\ final_output' = <<>>
    /\ pc' = "Validating"
    /\ UNCHANGED environ

\* From the first yield: the input check, then either the error entry, or
\* the ArticleInformation and the start of Runner.run(editor_agent, ...).
Validate ==
    /\ pc = "Validating"
    /\ LET r == input_validation_check(args.title, args.tags, args.body) IN
         IF r.kind = "raise"
         THEN /\ pc' = "Crashed"
              /\ UNCHANGED <<chat_history, context>>
         ELSE IF ~r.valid
         THEN /\ chat_history' =
                    Append(chat_history,
                           [role |-> "assistant", content |-> r.message])
              /\ pc' = "InvalidInput"
              /\ UNCHANGED context
         ELSE /\ context' = <<ArticleInformation(args.title, args.tags,
                                  args.body, args.private_flag,
                                  args.slide_flag)>>
              /\ pc' = "UnderReview"
              /\ UNCHANGED chat_history
    /\ UNCHANGED <<environ, args, verdicts, gate, posts, final_output, runs>>

\* The editor calls one of its check tools, which returns a CheckResult.
CallCheckTool(r, status) ==
    /\ pc = "UnderReview"
    /\ verdicts[r] = "none"
    /\ verdicts' = [verdicts EXCEPT ![r] = status]
    /\ UNCHANGED <<environ, chat_history, pc, args, context, gate, posts,
                   final_output, runs>>

\* The editor ends the agent run with the reasons for not publishing.
EditorReject ==
    /\ pc = "UnderReview"
    /\ CanReject(verdicts)
    /\ final_output' = EditorReply
    /\ pc' = "RunnerDone"
    /\ UNCHANGED <<environ, chat_history, args, context, verdicts, gate,
                   posts, runs>>

\* The editor hands the run over to the approver (handoffs=[applover_agent]).
EditorHandoff ==
    /\ pc = "UnderReview"
    /\ CanHandoff(verdicts)
    /\ pc' = "AwaitingApproval"
    /\ UNCHANGED <<environ, chat_history, args, context, verdicts, gate,
                   posts, final_output, runs>>

\* The approver asks the third party through confirm_to_human.
ApproverConfirm ==
    /\ pc = "AwaitingApproval"
    /\ gate = <<>>
    /\ gate' = Append(gate, confirm_to_human(<<"may I post this article?">>))
    /\ UNCHANGED <<environ, chat_history, pc, args, context, verdicts, posts,
                   final_output, runs>>

\* The approver calls publish_to_platform with the platform named in the
\* prompt; the client answers with reply.  An exception raised by the tool is
\* not handled anywhere in main.py: the failed call is the tool's result and
\* the approver goes on from there.
ApproverPublish(reply) ==
    /\ pc = "AwaitingApproval"
    /\ MayPublish(gate, posts)
    /\ posts' = Append(posts,
                       publish_to_platform(context[1], Prompt(args).platform,
                                           reply))
    /\ UNCHANGED <<environ, chat_history, pc, args, context, verdicts, gate,
                   final_output, runs>>

\* The approver ends the agent run with its report.
ApproverFinish ==
    /\ pc = "AwaitingApproval"
    /\ gate # <<>>
    /\ IF Last(gate) = "accept" THEN posts # <<>> ELSE TRUE
    /\ final_output' = ApproverOutput(gate, posts)
    /\ pc' = "RunnerDone"
    /\ UNCHANGED <<environ, chat_history, args, context, verdicts, gate,
                   posts, runs>>

\* Runner.run has returned: the final output becomes the last entry.
AppendFinalOutput ==
    /\ pc = "RunnerDone"
    /\ chat_history' =
           Append(chat_history,
                  [role |-> "assistant", content |-> final_output])
    /\ pc' = "Finished"
    /\ UNCHANGED <<environ, args, context, verdicts, gate, posts,
                   final_output, runs>>

AgentStep ==
    \/ \E r \in Reviewers, status \in {"accept", "reject"} :
           CallCheckTool(r, status)
    \/ EditorReject
    \/ EditorHandoff
    \/ ApproverConfirm
    \/ \E reply \in {"ok"} \cup ClientErrors : ApproverPublish(reply)
    \/ ApproverFinish

\* One submission, with every input up to the length bounds.
Next ==
    \/ Submit(Strs(MaxTitleLen), Strs(MaxTagsLen), Strs(MaxBodyLen),
              BOOLEAN, BOOLEAN, 1)
    \/ Validate
    \/ AgentStep
    \/ AppendFinalOutput

Spec == Init /\ [][Next]_vars

\* A sequence of submissions on one transcript, with short titles and
\* bodies, one tag, and the checkboxes at their initial values.
NextRuns ==
    \/ Submit(Strs(MaxRunsTextLen), {<<"a">>}, Strs(MaxRunsTextLen),
              {TRUE}, {FALSE}, MaxRuns)
    \/ Validate
    \/ AgentStep
    \/ AppendFinalOutput

SpecRuns == Init /\ [][NextRuns]_vars

-----------------------------------------------------------------------------
(* Vocabulary of the properties *)

\* Number of create-item requests sent to the Qiita client in this run.
CreateCalls == Cardinality({i \in 1..Len(posts) : posts[i].request # <<>>})

AllAccepted == \A r \in Reviewers : verdicts[r] = "accept"

GateAccepted == gate # <<>> /\ Last(gate) = "accept"

\* No editor, check tool, gate or client has been used in this run.
NoRoleInvoked ==
    /\ context = <<>>
    /\ verdicts = NoVerdicts
    /\ gate = <<>>
    /\ posts = <<>>
    /\ final_output = <<>>

Validated == pc \notin {"Idle", "Validating"}

\* The outcome a finished run reports.
Outcome ==
    IF pc = "InvalidInput" THEN "InvalidInput"
    ELSE IF pc # "Finished" THEN "none"
    ELSE IF final_output[2] = "reject" THEN "Rejected"
    ELSE IF final_output[3] # "" THEN "Published"
    ELSE "Failed"

ParsedTagCount(tags) == Len(split(strip(tags), " "))

\* The number a decimal digit denotes.
int(s) == CHOOSE n \in 0..9 : ToString(n) = s

\* The maximum the configuration asks for.
ConfiguredMax == IF environ = <<>> THEN 5 ELSE int(environ[1])

IsPrefix(s, t) == Len(s) <= Len(t) /\ SubSeq(t, 1, Len(s)) = s

SameArticle(request, article_info) ==
    /\ request.title = article_info.title
    /\ request.body = article_info.body
    /\ request.tags = article_info.tags

-----------------------------------------------------------------------------
(* C1 *)

-----------------------------------------------------------------------------
(* C2 *)

\* C2: once any check tool has returned reject, whatever the others return,
\* no create-item request is ever sent, the approver is never reached, and
\* the finished run's outcome is Rejected.
C2_AnyRejectBlocks ==
    (\E r \in Reviewers : verdicts[r] = "reject") =>
        /\ CreateCalls = 0
        /\ posts = <<>>
        /\ pc \in {"UnderReview", "RunnerDone", "Finished"}
        /\ (pc = "Finished" => Outcome = "Rejected")

C2_Witness ==
    /\ pc = "Finished"
    /\ verdicts["quality_check_tool"] = "reject"
    /\ verdicts["readablility_check_tool"] = "accept"
    /\ verdicts["code_format_check_tool"] = "accept"

-----------------------------------------------------------------------------
(* C3 *)

-----------------------------------------------------------------------------
(* C4 *)

\* C4: in every state of a run at most one create-item request has been
\* sent, and requests are sent only by the approver after the handoff.
C4_AtMostOneCall ==
    /\ CreateCalls <= 1
    /\ (posts # <<>> => pc \in {"AwaitingApproval", "RunnerDone", "Finished"})

-----------------------------------------------------------------------------
(* C5 *)

\* C5: a submission with an empty title ends in InvalidInput with the title
\* message as the last entry and no role invoked; and in every InvalidInput
\* run no role has been invoked.
C5_EmptyTitleInvalid ==
    /\ (Validated /\ args.title = <<>>) =>
           /\ pc = "InvalidInput"
           /\ Last(chat_history).content = MSG_TITLE_EMPTY
           /\ NoRoleInvoked
    /\ (pc = "InvalidInput" => NoRoleInvoked)

C5_Witness ==
    /\ pc = "InvalidInput" /\ args.title = <<>> /\ args.body # <<>>
    /\ Last(chat_history).content = MSG_TITLE_EMPTY

-----------------------------------------------------------------------------
(* C6 *)

\* C6: a submission with a non-empty title and body whose tags field parses
\* into more tags than the configured maximum ends in InvalidInput with the
\* tag message, and no role is invoked.
C6_TooManyTagsInvalid ==
    (/\ Validated /\ args.title # <<>> /\ args.body # <<>>
     /\ ParsedTagCount(args.tags) > ConfiguredMax) =>
        /\ pc = "InvalidInput"
        /\ Last(chat_history).content = MSG_TOO_MANY_TAGS
        /\ NoRoleInvoked

-----------------------------------------------------------------------------
(* C7 *)

\* The message of the first failing rule, in the order title, body, tag count.
FirstFailingRule(a) ==
    IF a.title = <<>> THEN MSG_TITLE_EMPTY
    ELSE IF a.body = <<>> THEN MSG_BODY_EMPTY
    ELSE IF ParsedTagCount(a.tags) > ConfiguredMax THEN MSG_TOO_MANY_TAGS
    ELSE MSG_NO_PROBLEM

\* C7: the three failure messages are distinct, and whenever some rule fails
\* the run reports exactly the message of the first failing rule.
C7_FirstFailingRuleWins ==
    /\ Cardinality({MSG_TITLE_EMPTY, MSG_BODY_EMPTY, MSG_TOO_MANY_TAGS}) = 3
    /\ (Validated /\ FirstFailingRule(args) # MSG_NO_PROBLEM) =>
           /\ pc = "InvalidInput"
           /\ Last(chat_history).content = FirstFailingRule(args)

-----------------------------------------------------------------------------
(* C8 *)

WellFormed(article) ==
    /\ article.title # <<>>
    /\ article.body # <<>>
    /\ Len(article.tags) <= ConfiguredMax

\* C8: every ArticleInformation handed to the editor, and every request sent
\* to the client, has a non-empty title, a non-empty body and at most the
\* configured maximum of tags.
C8_SubmissionWellFormed ==
    /\ (context # <<>> => WellFormed(context[1]))
    /\ \A i \in 1..Len(posts) :
           posts[i].request # <<>> => WellFormed(posts[i].request[1])

-----------------------------------------------------------------------------
(* C9 *)

\* C9: every step keeps the transcript's earlier entries in place, and a run
\* that reported an outcome ends the transcript with its three progress
\* entries followed by the outcome entry (the validation message or the
\* agents' final output).
C9_TranscriptAppendOnly ==
    /\ [][IsPrefix(chat_history, chat_history')]_vars
    /\ [](pc \in {"InvalidInput", "Finished"} =>
            /\ Len(chat_history) >= 5
            /\ SubSeq(chat_history, Len(chat_history) - 3,
                      Len(chat_history) - 1) = ProgressEntries(args.title)
            /\ Last(chat_history).role = "assistant"
            /\ IF pc = "Finished"
               THEN Last(chat_history).content = final_output
               ELSE Last(chat_history).content
                        \in {MSG_TITLE_EMPTY, MSG_BODY_EMPTY, MSG_TOO_MANY_TAGS})

C9_Witness ==
    /\ runs >= 2
    /\ pc = "Finished"
    /\ Len(chat_history) >= 9

-----------------------------------------------------------------------------
(* C10 *)

\* C10: when a publish_to_platform call has failed, it is the only call of
\* the run, and the finished run's last entry is the client's error verbatim.
C10_ErrorVerbatimNoRetry ==
    (\E i \in 1..Len(posts) : posts[i].result # "ok") =>
        /\ Len(posts) = 1
        /\ (pc = "Finished" =>
               Last(chat_history).content = <<posts[1].result>>)

=============================================================================
